---- MODULE Spec2Model ----
(***************************************************************************)
(* Model of assyst's perturbation engine (assyst/perturbations.py): the    *)
(* seeded perturbation classes, their pickling and equality, and the       *)
(* apply_perturbations driver.                                             *)
(*                                                                         *)
(* Abstractions.  A numpy Generator is an object on a heap (gens) whose    *)
(* state is the pair (seed, pos): the stream it was seeded with and the    *)
(* number of variates drawn so far.  Atomic positions and cells are not    *)
(* numbers here: a structure carries the list of geometry operations that  *)
(* were applied to it, each with the generator state it drew from, so two  *)
(* structures are identical exactly when they were produced by the same    *)
(* operations from the same generator states.                              *)
(***************************************************************************)
EXTENDS Integers, Sequences, FiniteSets, TLC

VARIABLES
    objs,      \* heap of perturbation objects, in construction order
    gens,      \* heap of numpy Generator states; a generator is its index
    ncalls,    \* per object: how often it has been invoked
    glob,      \* state of numpy's global legacy generator (np.random)
    ent,       \* next value the OS entropy source hands to default_rng(None)
    \* ---- object-level experiments (construct, call, pickle, compare)
    ops,       \* number of operations performed so far
    lastOp,    \* the operation performed by the last step
    firstOut,  \* per object: result of its first call, when made directly (else <<>>)
    drawn,     \* per object: its generators' states at the start of each call
    \* ---- apply_perturbations
    structures, perturbations, filters, fform, retries,  \* the arguments
    si, mi, att, pc,                                     \* loop position
    out,       \* the structures yielded so far
    fcur,      \* position of a single-pass `filters` iterator
    fcalls,    \* per filter: how often it has been called
    log,       \* per (structure, perturbation) pair: what happened
    lastExc,   \* the exception that ended the generator, if any
    run, out1, heap0,  \* second run of the same workflow, for reproducibility
    \* ---- update_uuid
    infos,     \* per structure: its info keys uuid, seed and lineage
    lists,     \* heap of lineage list objects; info.lin is an index into it
    fresh,     \* the next identifier uuid.uuid4() hands out
    lastId,    \* the last identity operation, with the state it started from
    \* ---- crystals.py and the strain tensor of stretch
    lastFn,    \* the last application of a function: its name, arguments, result
    sargs,     \* the arguments of a sample_space_groups call
    sst        \* its loop state: position, remaining budget, yields, sampler calls

hvars == <<objs, gens, ncalls, glob, ent>>
ovars == <<ops, lastOp, firstOut, drawn>>
dvars == <<structures, perturbations, filters, fform, retries, si, mi, att, pc,
           out, fcur, fcalls, log, lastExc, run, out1, heap0>>
ivars == <<infos, lists, fresh, lastId>>
cvars == <<lastFn, sargs, sst>>
vars == <<hvars, ovars, dvars, ivars, cvars>>

-----------------------------------------------------------------------------
(* Bounds of the model *)

MaxSeed == 2        \* explicit integer seeds are 1..MaxSeed
MaxOps == 2         \* operations per object-level experiment
MaxRetries == 3     \* `retries` ranges over 0..MaxRetries
MaxK == 2           \* a mock filter rejects its first k <= MaxK calls
Grain == 4          \* rng.random() and `chance` are multiples of 1/Grain

Seeds == 1..MaxSeed
EntropyBase == {100}

Min(a, b) == IF a < b THEN a ELSE b

-----------------------------------------------------------------------------
(* numpy Generators *)

\* the state of a generator freshly seeded with s
SeedState(s) == [seed |-> s, pos |-> 0]

\* drawing n variates advances the stream by n
Advance(st, n) == [st EXCEPT !.pos = @ + n]

\* rng.random(): one uniform value in [0, 1), in units of 1/Grain
Uniform(st) == (st.seed * 3 + st.pos) % Grain

\* An argument `rng` is [k |-> "int", v |-> seed], [k |-> "none", v |-> 0] or
\* [k |-> "gen", v |-> generator].
IntArg(s) == [k |-> "int", v |-> s]
NoneArg == [k |-> "none", v |-> 0]
GenArg(g) == [k |-> "gen", v |-> g]

\* np.random.default_rng(arg) on heap h: an existing Generator is returned as
\* it is (the same object), an int seeds a new one, None seeds a new one from
\* OS entropy.  Result: the heap and the generator.
default_rng_unseeded(h, arg) ==
    IF arg.k = "gen" THEN [h |-> h, id |-> arg.v]
    ELSE [h |-> [h EXCEPT !.gens = Append(@, SeedState(h.ent)), !.ent = @ + 1],
          id |-> Len(h.gens) + 1]

default_rng_module(h, arg) ==
    IF h.gens # <<>> THEN [h |-> h, id |-> 1]
    ELSE [h |-> [h EXCEPT !.gens = Append(@, SeedState(arg.v))], id |-> 1]

default_rng(h, arg) ==
    IF arg.k = "gen" THEN [h |-> h, id |-> arg.v]
    ELSE IF arg.k = "int"
    THEN [h |-> [h EXCEPT !.gens = Append(@, SeedState(arg.v))], id |-> Len(h.gens) + 1]
    ELSE [h |-> [h EXCEPT !.gens = Append(@, SeedState(h.ent)), !.ent = @ + 1],
          id |-> Len(h.gens) + 1]

-----------------------------------------------------------------------------
(* Structures (ase.Atoms) *)

Elements == {"Cu", "Ag"}

\* a structure as built by a caller: no geometry operation applied, no
\* `perturbation` key in info (the empty string stands for the absent key),
\* no identity keys.  `id` are the info keys uuid, seed (0: absent) and
\* lineage (has: the key is present).
Atoms(symbols) ==
    [symbols |-> symbols, geom |-> <<>>, perturbation |-> <<>>,
     id |-> [uuid |-> 0, seed |-> 0, has |-> FALSE, lineage |-> <<>>]]

\* s.info["uuid"] = X
WithUuid(s, X) == [s EXCEPT !.id.uuid = X]

\* a structure that went through a perturbation before: info["perturbation"] = str
WithTag(s, str) == [s EXCEPT !.perturbation = str]

\* Atoms.repeat(2): 2x2x2 replica, eight times the atoms
repeat2(s) ==
    [s EXCEPT !.symbols = [i \in 1..(8 * Len(s.symbols)) |-> s.symbols[((i - 1) % Len(s.symbols)) + 1]],
              !.geom = Append(@, [op |-> "repeat", a |-> <<>>, seed |-> 0, pos |-> 0])]

Ok(s, h) == [s |-> s, h |-> h, exc |-> "none"]
Raise(s, h, e) == [s |-> s, h |-> h, exc |-> e]

-----------------------------------------------------------------------------
(* The in-place functions rattle, element_scaled_rattle and stretch *)

\* the generator state a function draws from, for each form of its `rng`
\* argument: an int seeds a fresh legacy generator, None is numpy's global one
\* (rattle) or a fresh entropy-seeded one (stretch), a Generator is itself
DrawState(h, arg, noneState) ==
    IF arg.k = "int" THEN SeedState(arg.v)
    ELSE IF arg.k = "none" THEN noneState
    ELSE h.gens[arg.v]

\* the per-atom standard deviations of a scalar sigma
Stdev(s, sigma) == [i \in 1..Len(s.symbols) |-> sigma]

\* rattle(structure, sigma, rng): gaussian noise on every coordinate
rattle(s, sigma, arg, h) ==
    IF Len(s.symbols) = 1 THEN Raise(s, h, "ValueError")
    ELSE LET st == DrawState(h, arg, h.glob)
             n == 3 * Len(s.symbols)
             ev == [op |-> "rattle", a |-> sigma, seed |-> st.seed, pos |-> st.pos]
             h1 == IF arg.k = "gen" THEN [h EXCEPT !.gens[arg.v] = Advance(@, n)]
                   ELSE IF arg.k = "none" THEN [h EXCEPT !.glob = Advance(@, n)]
                   ELSE h
         IN Ok([s EXCEPT !.geom = Append(@, ev)], h1)

\* a reference map is a set of <<element, length>> pairs
RefKeys(reference) == {p[1] : p \in reference}
RefValue(reference, e) == (CHOOSE p \in reference : p[1] = e)[2]

\* element_scaled_rattle(structure, sigma, reference, rng)
element_scaled_rattle_lenient(s, sigma, reference, arg, h) ==
    IF \E i \in 1..Len(s.symbols) :
          \/ s.symbols[i] \notin RefKeys(reference)
          \/ RefValue(reference, s.symbols[i]) <= 0
    THEN Raise(s, h, "ValueError")
    ELSE rattle(s, [i \in 1..Len(s.symbols) |-> sigma * RefValue(reference, s.symbols[i])],
                arg, h)
element_scaled_rattle(s, sigma, reference, arg, h) ==
    IF ~(\A p \in reference : p[2] > 0) THEN Raise(s, h, "ValueError")
    ELSE IF \E i \in 1..Len(s.symbols) : s.symbols[i] \notin RefKeys(reference)
    THEN Raise(s, h, "ValueError")
    ELSE rattle(s, [i \in 1..Len(s.symbols) |-> sigma * RefValue(reference, s.symbols[i])],
                arg, h)

\* stretch(structure, hydro, shear, minimum_strain, rng): four draws of three
\* variates (signs and magnitudes of the shear, then of the diagonal strains)
stretch(s, hydro, shear, minimum_strain, arg, h) ==
    LET st == DrawState(h, arg, SeedState(h.ent))
        ev == [op |-> "stretch", a |-> <<hydro, shear, minimum_strain>>,
               seed |-> st.seed, pos |-> st.pos]
        h1 == IF arg.k = "gen" THEN [h EXCEPT !.gens[arg.v] = Advance(@, 12)]
              ELSE IF arg.k = "none" THEN [h EXCEPT !.ent = @ + 1]
              ELSE h
    IN Ok([s EXCEPT !.geom = Append(@, ev)], h1)

-----------------------------------------------------------------------------
(* Perturbation objects.  One record shape for all classes; the fields a    *)
(* class does not have keep the value of Blank.  `supplied` is not a field  *)
(* of the class: it remembers the rng argument the instance was built with. *)

Blank ==
    [type |-> "", sigma |-> 0, create_supercells |-> FALSE, reference |-> {},
     hydro |-> 0, shear |-> 0, minimum_strain |-> 0, chance |-> 0,
     rng |-> 0, kids |-> <<>>, fn |-> "", at |-> 0, exc |-> "",
     supplied |-> [k |-> "", v |-> 0]]

Classes == {"Rattle", "ElementScaledRattle", "Stretch", "Series", "RandomChoice"}
HasRng(p) == p.type \in {"Rattle", "ElementScaledRattle", "Stretch", "RandomChoice"}

Tok(t, a, b) == [t |-> t, a |-> a, b |-> b]
Plus == Tok("+", 0, 0)
Bar == Tok("|", 0, 0)

\* "+".join(parts)
RECURSIVE JoinPlus(_)
JoinPlus(parts) ==
    IF parts = <<>> THEN <<>>
    ELSE IF Len(parts) = 1 THEN parts[1]
    ELSE parts[1] \o <<Plus>> \o JoinPlus(Tail(parts))

\* str(perturbation), a sequence of tokens
RECURSIVE Str(_, _)
Str(O, o) ==
    LET p == O[o] IN
    CASE p.type = "Rattle" -> <<Tok("rattle", p.sigma, 0)>>
      [] p.type = "ElementScaledRattle" -> <<Tok("scaled_rattle", p.sigma, 0)>>
      [] p.type = "Stretch" -> <<Tok("stretch", p.hydro, p.shear)>>
      [] p.type = "Series" -> JoinPlus([i \in DOMAIN p.kids |-> Str(O, p.kids[i])])
      [] p.type = "RandomChoice" -> Str(O, p.kids[1]) \o <<Bar>> \o Str(O, p.kids[2])
      [] OTHER -> <<Tok("function", 0, 0)>>

\* PerturbationABC.__call__: tag the structure with str(self)
PerturbationABC_call_overwrite(s, str) == [s EXCEPT !.perturbation = str]
PerturbationABC_call(s, str) ==
    IF s.perturbation = <<>> THEN [s EXCEPT !.perturbation = str]
    ELSE [s EXCEPT !.perturbation = @ \o <<Plus>> \o str]

\* the generator a class instance hands to the in-place function
OwnRng_global(p) == NoneArg
OwnRng(p) == GenArg(p.rng)

\* Rattle.__call__ / ElementScaledRattle.__call__: optional supercell first
Supercell_never(p, s) == s
Supercell(p, s) ==
    IF p.create_supercells /\ Len(s.symbols) = 1 THEN repeat2(s) ELSE s

Rattle_call(O, o, s, h) ==
    LET s1 == PerturbationABC_call(Supercell(O[o], s), Str(O, o))
    IN rattle(s1, Stdev(s1, O[o].sigma), OwnRng(O[o]), h)

ElementScaledRattle_call(O, o, s, h) ==
    LET s1 == PerturbationABC_call(Supercell(O[o], s), Str(O, o))
    IN element_scaled_rattle(s1, O[o].sigma, O[o].reference, OwnRng(O[o]), h)

Stretch_call(O, o, s, h) ==
    LET p == O[o] IN
    stretch(PerturbationABC_call(s, Str(O, o)), p.hydro, p.shear, p.minimum_strain,
            OwnRng(p), h)

\* RandomChoice.__call__: choice_a when the draw exceeds chance, else choice_b
TakesA_strict(d, chance) == d >= chance
TakesA(d, chance) == d > chance

\* plain callables: `lambda s: s`, a Mock raising `exc` from its at-th call on,
\* and `lambda atoms: rattle(atoms, sigma)`
Function_call(p, calls, s, h) ==
    CASE p.fn = "identity" -> Ok(s, h)
      [] p.fn = "raiser" -> IF calls >= p.at THEN Raise(s, h, p.exc) ELSE Ok(s, h)
      [] OTHER -> rattle(s, Stdev(s, p.sigma), NoneArg, h)

RECURSIVE Call(_, _, _)
RECURSIVE Series_call(_, _, _)

\* Series.__call__: each member consumes the previous one's result
Series_call(kids, s, h) ==
    IF kids = <<>> THEN Ok(s, h)
    ELSE LET r == Call(kids[1], s, h)
         IN IF r.exc # "none" THEN r ELSE Series_call(Tail(kids), r.s, r.h)

\* perturbation(structure) for object o: result structure, heap, exception
Call(o, s, h) ==
    LET p == h.objs[o]
        h1 == [h EXCEPT !.ncalls[o] = @ + 1]
    IN CASE p.type = "Rattle" -> Rattle_call(h.objs, o, s, h1)
         [] p.type = "ElementScaledRattle" -> ElementScaledRattle_call(h.objs, o, s, h1)
         [] p.type = "Stretch" -> Stretch_call(h.objs, o, s, h1)
         [] p.type = "Series" -> Series_call(p.kids, s, h1)
         [] p.type = "RandomChoice" ->
              LET d == Uniform(h1.gens[p.rng])
                  h2 == [h1 EXCEPT !.gens[p.rng] = Advance(@, 1)]
              IN IF TakesA(d, p.chance) THEN Call(p.kids[1], s, h2)
                 ELSE Call(p.kids[2], s, h2)
         [] OTHER -> Function_call(p, h1.ncalls[o], s, h1)

-----------------------------------------------------------------------------
(* Construction *)

EmptyHeap(e, g) == [objs |-> <<>>, gens |-> <<>>, ncalls |-> <<>>, glob |-> g, ent |-> e]

\* __post_init__ of Rattle, ElementScaledRattle, Stretch and RandomChoice:
\* object.__setattr__(self, "rng", np.random.default_rng(self.rng))
post_init(h, rec, arg) ==
    LET r == default_rng(h, arg)
    IN [r.h EXCEPT !.objs = Append(@, [rec EXCEPT !.rng = r.id, !.supplied = arg]),
                   !.ncalls = Append(@, 0)]

\* One construction step: [rec |-> fields, arg |-> rng argument].  A Series or
\* a plain callable has no generator; "Generator" is the caller's own
\* np.random.default_rng(seed), which creates no perturbation.
Construct(h, ins) ==
    IF ins.rec.type = "Generator" THEN default_rng(h, ins.arg).h
    ELSE IF HasRng(ins.rec) THEN post_init(h, ins.rec, ins.arg)
    ELSE [h EXCEPT !.objs = Append(@, ins.rec), !.ncalls = Append(@, 0)]

RECURSIVE Build(_, _)
Build(h, recipe) ==
    IF recipe = <<>> THEN h ELSE Build(Construct(h, Head(recipe)), Tail(recipe))

Ins(rec, arg) == [rec |-> rec, arg |-> arg]
RattleOf(sigma, cs) == [Blank EXCEPT !.type = "Rattle", !.sigma = sigma, !.create_supercells = cs]
ScaledOf(sigma, ref) == [Blank EXCEPT !.type = "ElementScaledRattle", !.sigma = sigma, !.reference = ref]
StretchOf(hydro, shear) == [Blank EXCEPT !.type = "Stretch", !.hydro = hydro, !.shear = shear, !.minimum_strain = 1]
SeriesOf(kids) == [Blank EXCEPT !.type = "Series", !.kids = kids]
ChoiceOf(a, b, chance) == [Blank EXCEPT !.type = "RandomChoice", !.kids = <<a, b>>, !.chance = chance]
FunctionOf(fn, sigma, at, exc) == [Blank EXCEPT !.type = "Function", !.fn = fn, !.sigma = sigma, !.at = at, !.exc = exc]
GeneratorOf == [Blank EXCEPT !.type = "Generator"]

-----------------------------------------------------------------------------
(* Pickling: __getstate__ / __setstate__ *)

\* the objects and generators an object is made of
RECURSIVE Tree(_, _)
Tree(O, o) == {o} \cup UNION {Tree(O, O[o].kids[i]) : i \in DOMAIN O[o].kids}
TreeGens(O, o) == {O[k].rng : k \in {k \in Tree(O, o) : HasRng(O[k])}}

\* __getstate__: state["rng"] = self.rng.bit_generator.state
getstate(p, G) == G[p.rng]

\* __setstate__: rng = np.random.default_rng(); rng.bit_generator.state = value
setstate(h, value) == [h EXCEPT !.gens = Append(@, value), !.ent = @ + 1]

\* pickle.loads(pickle.dumps(o)): every object of the tree is rebuilt once
\* (pickle's memo), children before parents; map[i] is the copy of object i
RECURSIVE Restore(_, _, _, _)
Restore(h, R, i, map) ==
    IF i > Len(map) THEN [h |-> h, map |-> map]
    ELSE IF i \notin R THEN Restore(h, R, i + 1, map)
    ELSE LET old == h.objs[i]
             h1 == IF HasRng(old) THEN setstate(h, getstate(old, h.gens)) ELSE h
             new == [old EXCEPT !.rng = IF HasRng(old) THEN Len(h1.gens) ELSE 0,
                                !.kids = [k \in DOMAIN old.kids |-> map[old.kids[k]]],
                                !.supplied = IF HasRng(old) THEN [k |-> "state", v |-> 0]
                                                ELSE old.supplied]
             h2 == [h1 EXCEPT !.objs = Append(@, new), !.ncalls = Append(@, 0)]
         IN Restore(h2, R, i + 1, [map EXCEPT ![i] = Len(h2.objs)])

loads_dumps(h, o) ==
    LET r == Restore(h, Tree(h.objs, o), 1, [i \in 1..Len(h.objs) |-> 0])
    IN [h |-> r.h, id |-> r.map[o]]

Picklable(O, o) == \A k \in Tree(O, o) : O[k].type \in Classes

-----------------------------------------------------------------------------
(* Equality: the __eq__ that @dataclass generates compares the classes and  *)
(* then the fields in order; a numpy Generator has no __eq__ of its own, so *)
(* two of them are equal only when they are the same object.                *)

SameGenerator(g1, g2) == g1 = g2

RECURSIVE Eq(_, _, _)
Eq(O, a, b) ==
    IF a = b THEN TRUE
    ELSE LET p == O[a]
             q == O[b]
         IN /\ p.type = q.type
            /\ p.type \in Classes
            /\ p.sigma = q.sigma
            /\ p.create_supercells = q.create_supercells
            /\ p.reference = q.reference
            /\ p.hydro = q.hydro /\ p.shear = q.shear
            /\ p.minimum_strain = q.minimum_strain
            /\ p.chance = q.chance
            /\ SameGenerator(p.rng, q.rng)
            /\ Len(p.kids) = Len(q.kids)
            /\ \A i \in DOMAIN p.kids : Eq(O, p.kids[i], q.kids[i])

-----------------------------------------------------------------------------
(* The heap as one value *)

Heap == [objs |-> objs, gens |-> gens, ncalls |-> ncalls, glob |-> glob, ent |-> ent]

SetHeap(h) ==
    /\ objs' = h.objs
    /\ gens' = h.gens
    /\ ncalls' = h.ncalls
    /\ glob' = h.glob
    /\ ent' = h.ent

HeapIs(h) ==
    /\ objs = h.objs
    /\ gens = h.gens
    /\ ncalls = h.ncalls
    /\ glob = h.glob
    /\ ent = h.ent

\* what a caller sees of a call: the structure returned, or the exception
Result(r) == [s |-> IF r.exc = "none" THEN r.s ELSE Atoms(<<>>), exc |-> r.exc]

\* the states of all generators object o draws from
GenStates(O, G, o) == {<<g, G[g]>> : g \in TreeGens(O, o)}

-----------------------------------------------------------------------------
(* Identity metadata (assyst/utils.py).  The info keys uuid and seed hold   *)
(* identifiers, 0 standing for an absent key; the lineage key holds a       *)
(* reference to a list object on the heap `lists` (0: absent key), so that  *)
(* two structures can hold the same list object.                            *)

MaxUpdates == 3     \* calls of update_uuid per behaviour
MaxStructs == 3     \* structures alive per behaviour (the first and its copies)

\* identifiers below FirstFresh are the ones a caller wrote into the metadata
FirstFresh == 10

Info(u, sd, l) == [uuid |-> u, seed |-> sd, lin |-> l]
NoInfo == Info(0, 0, 0)
NoId == [kind |-> "none", i |-> 0, pre |-> NoInfo, preL |-> <<>>]

\* structure.info.get('lineage', [])
GetLineage(L, info) == IF info.lin = 0 THEN <<>> ELSE L[info.lin]

\* lineage.append(structure.info['uuid'])
NewLineage(lineage, X) == Append(lineage, X)

\* lineage = list(...); lineage.append(uuid); structure.info['lineage'] = lineage:
\* a new list object is stored, the old one is left as it was
StoreLineage_inplace(L, info) ==
    IF info.lin = 0 THEN [lists |-> Append(L, <<info.uuid>>), lin |-> Len(L) + 1]
    ELSE [lists |-> [L EXCEPT ![info.lin] = Append(@, info.uuid)], lin |-> info.lin]
StoreLineage(L, info) ==
    [lists |-> Append(L, NewLineage(GetLineage(L, info), info.uuid)), lin |-> Len(L) + 1]

\* if 'seed' not in structure.info: structure.info['seed'] = new_uuid
SeedAfter_overwrite(info, new) == new
SeedAfter(info, new) == IF info.seed = 0 THEN new ELSE info.seed

\* update_uuid(structure), `new` being the value of str(uuid.uuid4()):
\* the heap of lists and the structure's info afterwards
update_uuid(L, info, new) ==
    LET st == IF info.uuid # 0 THEN StoreLineage(L, info)
              ELSE [lists |-> L, lin |-> info.lin]
    IN [lists |-> st.lists, info |-> Info(new, SeedAfter(info, new), st.lin)]

IdIdle == infos = <<>> /\ lists = <<>> /\ fresh = FirstFresh /\ lastId = NoId

\* no function of crystals.py has been applied and no sampling is under way
NoCall == [f |-> "none"]
SamplerIdle == sargs = <<>> /\ sst = [pc |-> "idle"]
FnIdle == lastFn = NoCall /\ SamplerIdle

-----------------------------------------------------------------------------
(* Object-level experiments: perturbations are constructed (Init), called   *)
(* on test structures and pickled, as the tests under tests/pickling and    *)
(* tests/reproducibility do.                                                *)

Inputs == {WithTag(WithUuid(Atoms(<<"Cu", "Ag">>), 3), <<Tok("stretch", 1, 1)>>), Atoms(<<"Cu">>)}

RefBoth == {<<"Cu", 1>>, <<"Ag", 2>>}
RefCuOnly == {<<"Cu", 1>>}
\* a non-positive length, for an element of the test structures and for one
\* that none of them contains
RefAgZero == {<<"Cu", 1>>, <<"Ag", 0>>}
RefAuZero == {<<"Cu", 1>>, <<"Ag", 2>>, <<"Au", 0>>}

\* first object, second object (possibly given the first one's generator),
\* and optionally a composite of the two
Scenes ==
    { <<Ins(p1, a1), Ins(p2, a2)>> \o c :
        p1 \in {RattleOf(1, FALSE), StretchOf(1, 1)},
        a1 \in {IntArg(1), NoneArg},
        p2 \in {RattleOf(1, FALSE), RattleOf(2, FALSE), RattleOf(1, TRUE), StretchOf(1, 1),
                ScaledOf(1, RefBoth), ScaledOf(1, RefCuOnly),
                ScaledOf(1, RefAgZero), ScaledOf(1, RefAuZero)},
        a2 \in {IntArg(s) : s \in Seeds} \cup {GenArg(1)},
        c \in {<<>>, <<Ins(SeriesOf(<<1, 2>>), NoneArg)>>}
              \cup { <<Ins(ChoiceOf(1, 2, ch), a3)>> :
                        ch \in {0, Grain \div 2}, a3 \in {IntArg(1), GenArg(1)} }
              \cup { <<Ins(ChoiceOf(1, 2, Grain), NoneArg)>> } }

NoOp == [kind |-> "none", o |-> 0, q |-> 0, exc |-> "none", x |-> Atoms(<<>>), s |-> Atoms(<<>>)]

DriverIdle ==
    /\ structures = <<>> /\ perturbations = <<>> /\ filters = <<>>
    /\ fform = "none" /\ retries = 0
    /\ si = 0 /\ mi = 0 /\ att = 0 /\ pc = "idle"
    /\ out = <<>> /\ fcur = 0 /\ fcalls = <<>> /\ log = <<>>
    /\ lastExc = "none" /\ run = 0 /\ out1 = <<>>
    /\ heap0 = EmptyHeap(0, SeedState(0))

InitObj ==
    /\ \E recipe \in Scenes, e \in EntropyBase :
          LET h == Build(EmptyHeap(e, SeedState(0)), recipe)
          IN /\ HeapIs(h)
             /\ firstOut = [i \in 1..Len(h.objs) |-> <<>>]
             /\ drawn = [i \in 1..Len(h.objs) |-> <<>>]
    /\ ops = 0
    /\ lastOp = NoOp
    /\ DriverIdle
    /\ IdIdle
    /\ FnIdle

Pad(seq, n) == [i \in 1..n |-> IF i <= Len(seq) THEN seq[i] ELSE <<>>]

\* perturbation o is called on a copy of test structure x
Invoke(o, x) ==
    /\ ops < MaxOps
    /\ LET r == Call(o, x, Heap)
       IN /\ SetHeap(r.h)
          /\ lastOp' = [kind |-> "call", o |-> o, q |-> 0, exc |-> r.exc,
                         x |-> x, s |-> Result(r).s]
          /\ firstOut' = IF firstOut[o] = <<>> /\ ncalls[o] = 0
                         THEN [firstOut EXCEPT ![o] = <<[x |-> x, r |-> Result(r)]>>]
                         ELSE firstOut
          /\ drawn' = IF r.exc = "none"
                      THEN [drawn EXCEPT ![o] = Append(@, GenStates(objs, gens, o))]
                      ELSE drawn
    /\ ops' = ops + 1
    /\ UNCHANGED <<dvars, ivars, cvars>>

\* q = pickle.loads(pickle.dumps(p)) for perturbation o (once per experiment)
PickleRoundTrip(o) ==
    /\ ops < MaxOps
    /\ Picklable(objs, o)
    /\ \A k \in 1..Len(objs) : objs[k].supplied.k # "state"
    /\ LET r == loads_dumps(Heap, o)
       IN /\ SetHeap(r.h)
          /\ lastOp' = [kind |-> "pickle", o |-> o, q |-> r.id, exc |-> "none",
                         x |-> Atoms(<<>>), s |-> Atoms(<<>>)]
          /\ firstOut' = Pad(firstOut, Len(r.h.objs))
          /\ drawn' = Pad(drawn, Len(r.h.objs))
    /\ ops' = ops + 1
    /\ UNCHANGED <<dvars, ivars, cvars>>

NextObj ==
    \E o \in 1..Len(objs) :
        \/ \E x \in Inputs : Invoke(o, x)
        \/ PickleRoundTrip(o)

SpecObj == InitObj /\ [][NextObj]_vars

-----------------------------------------------------------------------------
(* Properties of pickling, equality and seeding (object-level experiments) *)

\* the last step was q = loads(dumps(p))
JustPickled == lastOp.kind = "pickle"

\* the generators of the copy hold the states of the original's
RECURSIVE SameStates(_, _, _, _)
SameStates(O, G, a, b) ==
    /\ HasRng(O[a]) => G[O[a].rng] = G[O[b].rng]
    /\ \A i \in DOMAIN O[a].kids : SameStates(O, G, O[a].kids[i], O[b].kids[i])

\* C6: right after q = deserialize(serialize(p)), whatever p is made of and
\* however often it was called before, q's generators hold the states of p's
\* and the next call of q returns what the next call of p returns, on every
\* input.
Cex_C6_PickleResumes ==
    JustPickled =>
        /\ SameStates(objs, gens, lastOp.o, lastOp.q)
        /\ \A x \in Inputs :
              Result(Call(lastOp.q, x, Heap)) = Result(Call(lastOp.o, x, Heap))

\* same class and same structural parameters, generators ignored
RECURSIVE SameParameters(_, _, _)
SameParameters(O, a, b) ==
    LET p == O[a]
        q == O[b]
    IN /\ p.type = q.type
       /\ p.type \in Classes
       /\ [p EXCEPT !.rng = 0, !.kids = <<>>, !.supplied = Blank.supplied]
            = [q EXCEPT !.rng = 0, !.kids = <<>>, !.supplied = Blank.supplied]
       /\ Len(p.kids) = Len(q.kids)
       /\ \A i \in DOMAIN p.kids : SameParameters(O, p.kids[i], q.kids[i])

\* C7: instances of the same class with equal structural parameters compare
\* equal whatever their generators are, and a perturbation equals its pickled
\* copy.
Cex_C7_EqualityIgnoresRng ==
    /\ \A a, b \in 1..Len(objs) : SameParameters(objs, a, b) => Eq(objs, a, b)
    /\ JustPickled => Eq(objs, lastOp.q, lastOp.o)

\* every generator of object o was seeded with an explicit integer, and no
\* object outside o draws from any of them
IntSeeded(O, o) ==
    /\ TreeGens(O, o) # {}
    /\ \A k \in Tree(O, o) : HasRng(O[k]) => O[k].supplied.k = "int"
Exclusive(O, o) ==
    \A k \in 1..Len(O) : (k \notin Tree(O, o) /\ HasRng(O[k])) => O[k].rng \notin TreeGens(O, o)

\* same class, same parameters and same integer seeds, member by member
RECURSIVE SameSeeds(_, _, _)
SameSeeds(O, a, b) ==
    /\ O[a].supplied = O[b].supplied
    /\ \A i \in DOMAIN O[a].kids : SameSeeds(O, O[a].kids[i], O[b].kids[i])
SameRecipe(O, a, b) ==
    /\ SameParameters(O, a, b)
    /\ IntSeeded(O, a) /\ IntSeeded(O, b)
    /\ SameSeeds(O, a, b)

\* C8: two independently constructed instances of one class with the same
\* parameters and the same integer seed return the same result from their
\* first call on equal inputs; and every call of an instance that returns
\* leaves its generator in a state no earlier call of it started from.
Thm_C8_SeedReproducible ==
    /\ \A a, b \in 1..Len(objs) :
          ( /\ Tree(objs, a) \cap Tree(objs, b) = {}
            /\ SameRecipe(objs, a, b)
            /\ Exclusive(objs, a) /\ Exclusive(objs, b)
            /\ firstOut[a] # <<>> /\ firstOut[b] # <<>>
            /\ firstOut[a][1].x = firstOut[b][1].x )
          => firstOut[a][1].r = firstOut[b][1].r
    /\ \A a \in 1..Len(objs) :
          HasRng(objs[a]) =>
             /\ \A i, j \in 1..Len(drawn[a]) : i # j => drawn[a][i] # drawn[a][j]
             /\ \A i \in 1..Len(drawn[a]) : drawn[a][i] # GenStates(objs, gens, a)

Wit_C8_SeedReproducible ==
    \E a, b \in 1..Len(objs) :
        /\ a # b
        /\ objs[a].type = "Rattle"
        /\ SameRecipe(objs, a, b)
        /\ Exclusive(objs, a) /\ Exclusive(objs, b)
        /\ firstOut[a] # <<>> /\ firstOut[b] # <<>>
        /\ firstOut[a][1].x = firstOut[b][1].x
        /\ firstOut[a][1].r.exc = "none"
        /\ ncalls[a] >= 1 /\ ncalls[b] >= 1


\* the step calls perturbation o
CallStep(o) == lastOp'.kind = "call" /\ lastOp'.o = o /\ ops' = ops + 1

\* the choice generator of RandomChoice c is none of its children's
ChoiceRngApart(O, c) ==
    O[c].rng \notin (TreeGens(O, O[c].kids[1]) \cup TreeGens(O, O[c].kids[2]))

SeedSupplied(p) == p.supplied.k \in {"int", "none"}

-----------------------------------------------------------------------------
(* Filters.  A filter is a callable Structure -> bool.  "thr" is a pure     *)
(* predicate of the structure's geometry (accept when the magnitude of the  *)
(* last disturbance is at most t), "mock" is the tests' Mock that rejects   *)
(* its first k calls and accepts afterwards, "raise" raises `exc`.          *)

Thr(t) == [kind |-> "thr", t |-> t, k |-> 0, exc |-> ""]
Mock(k) == [kind |-> "mock", t |-> 0, k |-> k, exc |-> ""]
Raising(e) == [kind |-> "raise", t |-> 0, k |-> 0, exc |-> e]

Magnitude(m) ==
    IF m.geom = <<>> THEN 0
    ELSE LET ev == m.geom[Len(m.geom)] IN ((ev.seed + ev.pos) \div 3) % 3

\* a geometric filter's verdict on structure m
Thr_call(f, m) == Magnitude(m) <= f.t

\* Mock(side_effect=[False] * k + [True, ...]) on its calls-th call
Mock_call(f, calls) == calls > f.k

\* f(m), on the calls-th call of f
Filter_call(f, calls, m) ==
    IF f.kind = "thr" THEN Thr_call(f, m) ELSE Mock_call(f, calls)

-----------------------------------------------------------------------------
(* apply_perturbations(structures, perturbations, filters, retries) *)

\* where `for f in filters` starts: a list or tuple is iterated from its
\* first element every time, an iterator goes on from where it stopped
iter_start(form, cur) == IF form = "iter" THEN cur ELSE 1

\* all(f(m) for f in filters): filters are called in order from index i until
\* one rejects or raises; `passed` are the filters that accepted
RECURSIVE all_filters(_, _, _, _, _)
all_filters(F, i, m, fc, passed) ==
    IF i > Len(F) THEN [ok |-> TRUE, next |-> i, fc |-> fc, exc |-> "none", passed |-> passed]
    ELSE LET fc1 == [fc EXCEPT ![i] = @ + 1]
         IN IF F[i].kind = "raise"
            THEN [ok |-> FALSE, next |-> i + 1, fc |-> fc1, exc |-> F[i].exc, passed |-> passed]
            ELSE IF Filter_call(F[i], fc1[i], m)
            THEN all_filters(F, i + 1, m, fc1, passed \cup {i})
            ELSE [ok |-> FALSE, next |-> i + 1, fc |-> fc1, exc |-> "none", passed |-> passed]

\* structure.copy()
copy(s) == s

\* except ValueError
Catches_nothing(e) == FALSE
Catches(e) == e = "ValueError"

Pos == [si |-> si, mi |-> mi, att |-> att]

\* the next (structure, perturbation) pair: perturbations are the inner loop
NextPair_outer(p) ==
    IF p.si < Len(structures) THEN [si |-> p.si + 1, mi |-> p.mi, att |-> 0]
    ELSE [si |-> IF p.mi < Len(perturbations) THEN 1 ELSE Len(structures) + 1,
          mi |-> IF p.mi < Len(perturbations) THEN p.mi + 1 ELSE 1, att |-> 0]
NextPair(p) ==
    IF p.mi < Len(perturbations) THEN [si |-> p.si, mi |-> p.mi + 1, att |-> 0]
    ELSE [si |-> p.si + 1, mi |-> 1, att |-> 0]

\* a rejected attempt: the next iteration of `for _ in range(retries)`, or
\* the next pair when the range is used up
AfterReject(p) ==
    IF p.att + 1 < retries THEN [p EXCEPT !.att = @ + 1] ELSE NextPair(p)
\* yield m; break
AfterYield_nobreak(p) == AfterReject(p)
AfterYield(p) == NextPair(p)
\* except ValueError: continue
AfterValueError_retry(p) == AfterReject(p)
AfterValueError(p) == NextPair(p)

SetPos(p) ==
    /\ si' = p.si
    /\ mi' = p.mi
    /\ att' = p.att
    /\ pc' = IF p.si > Len(structures) THEN "done" ELSE "running"

\* m = mod(structure.copy()): the perturbations work in place on what they
\* are handed, which is the copy; what the input structure is after the call
InputAfter_inplace(structure, m) == m
InputAfter(structure, m) == structure

\* one iteration of the retry loop for the current pair, up to its outcome
Attempt ==
    LET r == Call(perturbations[mi], copy(structures[si]), Heap)
        fr == all_filters(filters, iter_start(fform, fcur), r.s, fcalls, {})
    IN IF r.exc # "none"
       THEN [kind |-> "raise", exc |-> r.exc, by |-> "mod", h |-> r.h, m |-> r.s,
             x |-> InputAfter(structures[si], r.s),
             fc |-> fcalls, cur |-> fcur, passed |-> {}]
       ELSE [kind |-> IF fr.exc # "none" THEN "raise" ELSE IF fr.ok THEN "yield" ELSE "reject",
             exc |-> fr.exc, by |-> IF fr.exc # "none" THEN "filter" ELSE "",
             h |-> r.h, m |-> r.s, x |-> InputAfter(structures[si], r.s), fc |-> fr.fc,
             cur |-> IF fform = "iter" THEN fr.next ELSE fcur, passed |-> fr.passed]

NoLog == [att |-> 0, fev |-> 0, rej |-> 0, yld |-> 0, exc |-> "none", by |-> ""]

Logged(a) ==
    [log EXCEPT ![si][mi] =
        [att |-> @.att + 1,
         fev |-> @.fev + (IF a.by = "mod" THEN 0 ELSE 1),
         rej |-> @.rej + (IF a.kind = "reject" THEN 1 ELSE 0),
         yld |-> @.yld + (IF a.kind = "yield" THEN 1 ELSE 0),
         exc |-> a.exc, by |-> a.by]]

Effects(a) ==
    /\ SetHeap(a.h)
    /\ fcalls' = a.fc
    /\ fcur' = a.cur
    /\ log' = Logged(a)
    /\ structures' = [structures EXCEPT ![si] = a.x]
    /\ UNCHANGED <<perturbations, filters, fform, retries, run, out1, heap0>>
    /\ UNCHANGED <<ovars, ivars, cvars>>

\* the attempt passes all filters: yield m; break
AttemptYield ==
    /\ pc = "running"
    /\ Attempt.kind = "yield"
    /\ Effects(Attempt)
    /\ out' = Append(out, [s |-> Attempt.m, pair |-> <<si, mi>>, passed |-> Attempt.passed])
    /\ SetPos(AfterYield(Pos))
    /\ lastExc' = lastExc

\* a filter rejects the attempt: retry, or give the pair up
AttemptReject ==
    /\ pc = "running"
    /\ Attempt.kind = "reject"
    /\ Effects(Attempt)
    /\ SetPos(AfterReject(Pos))
    /\ UNCHANGED <<out, lastExc>>

\* the perturbation or a filter raises an exception the driver catches
AttemptSkip ==
    /\ pc = "running"
    /\ Attempt.kind = "raise"
    /\ Catches(Attempt.exc)
    /\ Effects(Attempt)
    /\ SetPos(AfterValueError(Pos))
    /\ UNCHANGED <<out, lastExc>>

\* ... or one it does not catch: the exception leaves the generator
AttemptCrash ==
    /\ pc = "running"
    /\ Attempt.kind = "raise"
    /\ ~Catches(Attempt.exc)
    /\ Effects(Attempt)
    /\ pc' = "crashed"
    /\ lastExc' = Attempt.exc
    /\ UNCHANGED <<si, mi, att, out>>

\* the state in which the generator body starts
Started(S, P, F, form, n, h) ==
    /\ structures = S /\ perturbations = P /\ filters = F /\ fform = form /\ retries = n
    /\ si = IF n = 0 THEN Len(S) + 1 ELSE 1
    /\ mi = 1 /\ att = 0
    /\ pc = IF n = 0 THEN "done" ELSE "running"
    /\ out = <<>> /\ fcur = 1
    /\ fcalls = [i \in 1..Len(F) |-> 0]
    /\ log = [i \in 1..Len(S) |-> [j \in 1..Len(P) |-> NoLog]]
    /\ lastExc = "none"
    /\ heap0 = h

\* The workflow is run a second time (tests/reproducibility): the same
\* perturbations with their generators in the state they had at the start of
\* the first run, the same filters, equal structures; what the program does
\* not control (the global generator, OS entropy) may differ.
Ambient == {[glob |-> SeedState(0), ent |-> 100], [glob |-> SeedState(7), ent |-> 150]}

Rerun ==
    /\ pc \in {"done", "crashed"}
    /\ run = 1
    /\ run' = 2
    /\ out1' = out
    /\ \E a \in Ambient : SetHeap([heap0 EXCEPT !.glob = a.glob, !.ent = a.ent])
    /\ si' = IF retries = 0 THEN Len(structures) + 1 ELSE 1
    /\ mi' = 1 /\ att' = 0
    /\ pc' = IF retries = 0 THEN "done" ELSE "running"
    /\ out' = <<>> /\ fcur' = 1
    /\ fcalls' = [i \in 1..Len(filters) |-> 0]
    /\ log' = [i \in 1..Len(structures) |-> [j \in 1..Len(perturbations) |-> NoLog]]
    /\ lastExc' = "none"
    /\ UNCHANGED <<structures, perturbations, filters, fform, retries, heap0>>
    /\ UNCHANGED <<ovars, ivars, cvars>>

-----------------------------------------------------------------------------
(* The runs of apply_perturbations that are explored *)

\* perturbation lists: how the objects are constructed, and which of them
\* are handed to apply_perturbations
Workflow(ch) ==
    [recipe |-> <<Ins(GeneratorOf, IntArg(1)),
                  Ins(RattleOf(1, FALSE), GenArg(1)), Ins(StretchOf(1, 1), GenArg(1)),
                  Ins(SeriesOf(<<1, 2>>), NoneArg),
                  Ins(StretchOf(2, 1), GenArg(1)), Ins(StretchOf(1, 2), GenArg(1)),
                  Ins(ChoiceOf(4, 5, ch), GenArg(1))>>,
     mods |-> <<3, 6>>]

ModLists ==
    {[recipe |-> <<Ins(FunctionOf("identity", 0, 0, ""), NoneArg)>>, mods |-> <<1>>]}
    \cup {[recipe |-> <<Ins(FunctionOf("raiser", 0, at, e), NoneArg),
                        Ins(FunctionOf("identity", 0, 0, ""), NoneArg)>>, mods |-> <<1, 2>>] :
             at \in 1..2, e \in {"ValueError", "TypeError"}}
    \cup {[recipe |-> <<Ins(RattleOf(1, cs), IntArg(s)), Ins(StretchOf(1, 1), a)>>,
           mods |-> <<1, 2>>] : cs \in BOOLEAN, s \in Seeds, a \in {IntArg(1), NoneArg}}
    \cup {[recipe |-> <<Ins(ScaledOf(1, RefCuOnly), IntArg(1)), Ins(RattleOf(2, FALSE), NoneArg)>>,
           mods |-> <<1, 2>>]}
    \cup {[recipe |-> <<Ins(FunctionOf("rattle", 1, 0, ""), NoneArg),
                        Ins(RattleOf(1, FALSE), IntArg(1))>>, mods |-> <<1, 2>>]}
    \cup {Workflow(ch) : ch \in {0, Grain \div 2, Grain}}

StructureLists ==
    {<<WithUuid(Atoms(<<"Cu", "Ag">>), 3)>>,
     <<WithUuid(Atoms(<<"Cu", "Ag">>), 3), Atoms(<<"Cu">>)>>,
     <<Atoms(<<"Cu">>), WithUuid(Atoms(<<"Cu", "Ag">>), 3)>>}

\* the `filters` argument: None, one filter, a list, or a single-pass iterator
FilterChains ==
    {<<f>> : f \in {Thr(0), Thr(1), Raising("ValueError"), Raising("TypeError")}
                   \cup {Mock(k) : k \in 1..MaxK}}
    \cup {<<Thr(1), Mock(1)>>, <<Mock(1), Thr(0)>>, <<Thr(0), Thr(1)>>}

FilterArgs ==
    {[form |-> "none", chain |-> <<>>]}
    \cup {[form |-> "single", chain |-> <<f>>] : f \in {Thr(0), Mock(MaxK)}}
    \cup {[form |-> fm, chain |-> c] : fm \in {"list", "iter"}, c \in FilterChains}

Init ==
    /\ \E w \in ModLists, S \in StructureLists, fa \in FilterArgs, n \in 0..MaxRetries,
          e \in EntropyBase :
          LET h == Build(EmptyHeap(e, SeedState(0)), w.recipe)
          IN /\ HeapIs(h)
             /\ Started(S, w.mods, fa.chain, fa.form, n, h)
    /\ run = 1
    /\ out1 = <<>>
    /\ ops = 0 /\ lastOp = NoOp /\ firstOut = <<>> /\ drawn = <<>>
    /\ IdIdle
    /\ FnIdle

Next ==
    \/ AttemptYield
    \/ AttemptReject
    \/ AttemptSkip
    \/ AttemptCrash
    \/ Rerun

Spec == Init /\ [][Next]_vars

-----------------------------------------------------------------------------
(* Properties of apply_perturbations *)

AllPairs == {<<i, j>> : i \in 1..Len(structures), j \in 1..Len(perturbations)}

\* the driver is through with pair (i, j)
Before(i, j) == i < si \/ (i = si /\ j < mi)
Earlier(p, q) == p[1] < q[1] \/ (p[1] = q[1] /\ p[2] < q[2])

\* C1: for a pair whose perturbation never raised and whose filter chain
\* rejected k attempts before accepting one, exactly min(k+1, retries)
\* perturbation calls and as many filter-chain evaluations were made, one
\* result was yielded if k < retries and none otherwise; with the tests' mock
\* filter as the only filter (in a list, as in the tests), k is the mock's
\* number of rejections.
Thm_C1_RetryCount ==
    /\ \A p \in AllPairs :
          LET L == log[p[1]][p[2]] IN
          (Before(p[1], p[2]) /\ L.exc = "none") =>
             /\ L.att = Min(L.rej + 1, retries)
             /\ L.fev = L.att
             /\ L.yld = IF L.rej < retries THEN 1 ELSE 0
    /\ (Before(1, 1) /\ log[1][1].exc = "none" /\ Len(filters) = 1
        /\ filters[1].kind = "mock" /\ fform \in {"single", "list"})
          => log[1][1].rej = Min(filters[1].k, retries)

Wit_C1_RetryCount ==
    \E p \in AllPairs :
        /\ Before(p[1], p[2])
        /\ log[p[1]][p[2]].exc = "none"
        /\ log[p[1]][p[2]].rej >= 2
        /\ log[p[1]][p[2]].yld = 1

\* C2: a pair whose perturbation raised ValueError on attempt j (after j-1
\* rejections) yielded nothing and called the perturbation exactly j times;
\* the error did not reach the caller and the driver went on to the next
\* pair; a mock perturbation raising from its at-th call on was called
\* exactly `at` times for the first pair.
Thm_C2_ValueErrorNoRetry ==
    \A p \in AllPairs :
        LET L == log[p[1]][p[2]] IN
        (L.exc = "ValueError" /\ L.by = "mod") =>
           /\ L.yld = 0
           /\ L.att = L.rej + 1
           /\ lastExc # "ValueError"
           /\ Before(p[1], p[2])
           /\ \A k \in 1..Len(out) : out[k].pair # p
           /\ (p = <<1, 1>> /\ objs[perturbations[1]].fn = "raiser")
                 => L.att = objs[perturbations[1]].at
           /\ (pc = "done" /\ retries > 0) =>
                 \A q \in AllPairs : Earlier(p, q) => log[q[1]][q[2]].att >= 1

Wit_C2_ValueErrorNoRetry ==
    /\ pc = "done"
    /\ retries >= 2
    /\ Len(perturbations) = 2
    /\ log[1][1].exc = "ValueError" /\ log[1][1].by = "mod"
    /\ log[1][1].rej = 1
    /\ log[1][2].att >= 1

\* C3: the yielded structures come in input-structure order first and
\* perturbation-list order second, each pair at most once.
Thm_C3_OutputOrder ==
    \A a, b \in 1..Len(out) : a < b => Earlier(out[a].pair, out[b].pair)

Wit_C3_OutputOrder ==
    /\ pc = "done"
    /\ Len(out) = 4
    /\ \E p \in AllPairs : log[p[1]][p[2]].rej >= 1

\* C4 as claimed: no failure of an attempt ends the stream, whether a filter
\* rejection, an exhausted retry budget or an error raised by the
\* perturbation or a filter.
Cex_C4_NeverAborts ==
    /\ pc # "crashed"
    /\ \A p \in AllPairs : Before(p[1], p[2]) => log[p[1]][p[2]].att >= Min(1, retries)

\* C4 (amended): a filter rejection, an exhausted retry budget or a
\* ValueError raised by the perturbation or by a filter never ends the
\* stream: the stream ends early only by an exception other than ValueError,
\* and short of that every pair the driver is through with was attempted.
Thm_C4_ValueErrorIsolated ==
    /\ pc = "crashed" => lastExc \notin {"none", "ValueError"}
    /\ pc # "crashed" => lastExc = "none"
    /\ \A p \in AllPairs : Before(p[1], p[2]) => log[p[1]][p[2]].att >= Min(1, retries)
    /\ pc = "running" => si <= Len(structures)
    /\ pc = "done" => \A p \in AllPairs : Before(p[1], p[2])

Failed(L) == L.exc = "ValueError" \/ (L.yld = 0 /\ L.rej = retries)

Wit_C4_ValueErrorIsolated ==
    /\ pc = "done"
    /\ \E p, q, r \in AllPairs :
          /\ Earlier(p, q) /\ Earlier(q, r)
          /\ log[p[1]][p[2]].exc = "ValueError"
          /\ log[q[1]][q[2]].exc = "none" /\ log[q[1]][q[2]].yld = 0
          /\ log[q[1]][q[2]].rej = retries
          /\ log[r[1]][r[2]].yld = 1

\* C5: every yielded structure was evaluated and accepted by every supplied
\* filter on the attempt that produced it, whatever the form of `filters`;
\* with no filters every first attempt that does not raise is yielded.
Cex_C5_YieldedPassAllFilters ==
    /\ \A k \in 1..Len(out) :
          /\ out[k].passed = 1..Len(filters)
          /\ \A i \in 1..Len(filters) :
                filters[i].kind = "thr" => Thr_call(filters[i], out[k].s)
    /\ filters = <<>> =>
          \A p \in AllPairs :
             (Before(p[1], p[2]) /\ log[p[1]][p[2]].exc = "none" /\ retries > 0)
                => (log[p[1]][p[2]].att = 1 /\ log[p[1]][p[2]].yld = 1)

\* a perturbation that draws from numpy's global generator
UsesGlobal == \E j \in 1..Len(perturbations) :
                 \E k \in Tree(objs, perturbations[j]) : objs[k].fn = "rattle"

Structs(o) == [k \in 1..Len(o) |-> o[k].s]

\* C10: when no perturbation draws from a generator outside the
\* perturbations, the second run of the same workflow (generators in the
\* same initial state, same filters, equal structures) yields the same
\* number of structures as the first and identical structures at every
\* position.
Thm_C10_RunsAgree ==
    (run = 2 /\ pc \in {"done", "crashed"} /\ ~UsesGlobal) => Structs(out) = Structs(out1)

Wit_C10_RunsAgree ==
    /\ run = 2 /\ pc = "done" /\ ~UsesGlobal
    /\ glob.seed = 7
    /\ Len(out) >= 2
    /\ \E j \in 1..Len(perturbations) : objs[perturbations[j]].type = "RandomChoice"
    /\ \E j \in 1..Len(perturbations) : objs[perturbations[j]].type = "Series"
    /\ \E p \in AllPairs : log[p[1]][p[2]].rej >= 1

-----------------------------------------------------------------------------
(* update_uuid on structures and their copies (tests/test_utils.py,         *)
(* tests/uuid/test_lineage.py): one structure with arbitrary identity       *)
(* metadata is copied and updated in any order.                             *)

\* no perturbation object exists
ObjIdle ==
    /\ HeapIs(EmptyHeap(0, SeedState(0)))
    /\ ops = 0 /\ lastOp = NoOp /\ firstOut = <<>> /\ drawn = <<>>

\* the metadata a caller can have written: uuid, seed and lineage each absent
\* or present, the lineage holding zero to two identifiers
InitialLineages == {<<>>, <<1>>, <<1, 2>>}
InitialInfos ==
    { [info |-> Info(u, sd, 0), lists |-> <<>>] : u \in {0, 3}, sd \in {0, 1, 3, 4} }
    \cup { [info |-> Info(u, sd, 1), lists |-> <<l>>] :
              u \in {0, 3}, sd \in {0, 1, 3, 4}, l \in InitialLineages }

InitId ==
    /\ \E m \in InitialInfos : infos = <<m.info>> /\ lists = m.lists
    /\ fresh = FirstFresh
    /\ lastId = NoId
    /\ ObjIdle
    /\ DriverIdle
    /\ FnIdle

\* update_uuid(structure i)
UpdateUuid(i) ==
    /\ fresh - FirstFresh < MaxUpdates
    /\ LET r == update_uuid(lists, infos[i], fresh)
       IN /\ infos' = [infos EXCEPT ![i] = r.info]
          /\ lists' = r.lists
    /\ fresh' = fresh + 1
    /\ lastId' = [kind |-> "update", i |-> i, pre |-> infos[i],
                  preL |-> GetLineage(lists, infos[i])]
    /\ UNCHANGED <<hvars, ovars, dvars, cvars>>

\* structure i is copied with a shallow copy of its info: the copy's lineage
\* key holds the same list object
CopyStructure(i) ==
    /\ Len(infos) < MaxStructs
    /\ infos' = Append(infos, infos[i])
    /\ lastId' = [kind |-> "copy", i |-> i, pre |-> infos[i],
                  preL |-> GetLineage(lists, infos[i])]
    /\ UNCHANGED <<lists, fresh, hvars, ovars, dvars, cvars>>

NextId ==
    \E i \in 1..Len(infos) :
        \/ UpdateUuid(i)
        \/ CopyStructure(i)

SpecId == InitId /\ [][NextId]_vars

-----------------------------------------------------------------------------
(* Properties of update_uuid *)

Range(seq) == {seq[k] : k \in DOMAIN seq}

\* the last step was update_uuid, and the structure it ran on
Updated == lastId.kind = "update"
Target == infos[lastId.i]

\* C11: update_uuid on a structure without a uuid key gives it an identifier
\* that no other metadata entry holds, sets seed to that identifier exactly
\* when no seed key was present (an existing seed stays), and leaves the
\* lineage key as it was: absent if absent, the same list with the same
\* entries otherwise.
Thm_C11_FirstAssignment ==
    (Updated /\ lastId.pre.uuid = 0) =>
        /\ Target.uuid # 0
        /\ Target.uuid \notin {lastId.pre.seed} \cup Range(lastId.preL)
        /\ \A j \in 1..Len(infos) : j # lastId.i =>
              Target.uuid \notin {infos[j].uuid, infos[j].seed}
                                   \cup Range(GetLineage(lists, infos[j]))
        /\ Target.seed = (IF lastId.pre.seed = 0 THEN Target.uuid ELSE lastId.pre.seed)
        /\ Target.lin = lastId.pre.lin
        /\ GetLineage(lists, Target) = lastId.preL

Wit_C11_FirstAssignment ==
    /\ Updated /\ lastId.pre.uuid = 0
    /\ lastId.pre.seed # 0
    /\ lastId.pre.lin = 0
    /\ Target.uuid >= FirstFresh
    /\ Target.seed = lastId.pre.seed

\* C12: update_uuid on a structure with uuid X and lineage L leaves it with
\* lineage L followed by X, a uuid different from X and from every lineage
\* entry, and the seed it had (no seed if it had none).
Cex_C12_LineageExtended ==
    (Updated /\ lastId.pre.uuid # 0) =>
        /\ GetLineage(lists, Target) = Append(lastId.preL, lastId.pre.uuid)
        /\ Target.uuid # lastId.pre.uuid
        /\ Target.uuid \notin Range(GetLineage(lists, Target))
        /\ Target.seed = lastId.pre.seed

\* the identifier of the earliest ancestor: the first lineage entry, or the
\* current uuid when there is no lineage entry
Ancestor(L, info) ==
    IF GetLineage(L, info) = <<>> THEN info.uuid ELSE GetLineage(L, info)[1]

\* C13: a call of update_uuid on a structure whose seed is absent or is its
\* earliest ancestor's identifier leaves the seed equal to the earliest
\* ancestor's identifier, and no step changes a seed that exists.
Cex_C13_SeedIsEarliestAncestor ==
    [][ \A i \in 1..Len(infos) :
          /\ ( /\ fresh' = fresh + 1 /\ lastId'.i = i
               /\ infos[i].seed \in {0, Ancestor(lists, infos[i])} )
             => infos'[i].seed = Ancestor(lists', infos'[i])
          /\ infos[i].seed # 0 => infos'[i].seed = infos[i].seed ]_vars

\* C14: update_uuid on structure i changes no list object that existed before
\* the call, and leaves the metadata and lineage of every other structure as
\* they were, whichever list objects the structures share.
Thm_C14_LineageNotShared ==
    [][ \A i \in 1..Len(infos) :
          (fresh' = fresh + 1 /\ lastId'.i = i) =>
             /\ \A k \in 1..Len(lists) : lists'[k] = lists[k]
             /\ \A j \in 1..Len(infos) : j # i =>
                   /\ infos'[j] = infos[j]
                   /\ GetLineage(lists', infos'[j]) = GetLineage(lists, infos[j]) ]_vars

\* update_uuid has run on a structure whose lineage list a sibling also held
Wit_C14_LineageNotShared ==
    /\ Updated
    /\ lastId.pre.uuid # 0 /\ lastId.pre.lin # 0
    /\ \E j \in 1..Len(infos) :
          /\ j # lastId.i
          /\ infos[j].lin = lastId.pre.lin
          /\ GetLineage(lists, infos[j]) = lastId.preL
          /\ GetLineage(lists, Target) = Append(lastId.preL, lastId.pre.uuid)
    /\ fresh - FirstFresh >= 2

-----------------------------------------------------------------------------
(* Properties of single calls of the perturbation classes (object-level     *)
(* experiments) and of raw functions under apply_perturbations              *)

Primitives == {"Rattle", "ElementScaledRattle", "Stretch"}

\* the last step called perturbation lastOp.o on lastOp.x (and it returned)
Called == lastOp.kind = "call"
Returned == Called /\ lastOp.exc = "none"

\* C15: a call of Rattle, ElementScaledRattle or Stretch that returns has
\* assigned one new identity: with prior uuid X the result has another uuid
\* and lineage extended by X, without a prior uuid it has a uuid, seed = uuid
\* and no lineage key; a Series of n of them on a structure with uuid X
\* extends the lineage by n entries, the first being X.
Cex_C15_IdentityPerCall ==
    Returned =>
        LET p == objs[lastOp.o]
            x == lastOp.x.id
            s == lastOp.s.id
        IN /\ (p.type \in Primitives /\ x.uuid # 0) =>
                 /\ s.uuid \notin {0, x.uuid}
                 /\ s.has /\ s.lineage = Append(x.lineage, x.uuid)
           /\ (p.type \in Primitives /\ x.uuid = 0) =>
                 /\ s.uuid # 0 /\ s.seed = s.uuid /\ ~s.has
           /\ (p.type = "Series" /\ x.uuid # 0
                 /\ \A k \in DOMAIN p.kids : objs[p.kids[k]].type \in Primitives) =>
                 /\ Len(s.lineage) = Len(x.lineage) + Len(p.kids)
                 /\ s.lineage[Len(x.lineage) + 1] = x.uuid

\* C16: a structure yielded by apply_perturbations for a plain callable
\* wrapping rattle and an input with uuid X has a uuid other than X and
\* lineage [X], and the input still has uuid X and no lineage.
Cex_C16_FunctionGetsIdentity ==
    \A k \in 1..Len(out) :
        LET x == structures[out[k].pair[1]]
            p == objs[perturbations[out[k].pair[2]]]
        IN (p.type = "Function" /\ p.fn = "rattle" /\ x.id.uuid # 0) =>
              /\ out[k].s.id.uuid \notin {0, x.id.uuid}
              /\ out[k].s.id.has /\ out[k].s.id.lineage = <<x.id.uuid>>
              /\ ~x.id.has

\* the tag after appending str to the tag `old`
Tagged(old, str) == IF old = <<>> THEN str ELSE old \o <<Plus>> \o str

\* objects built from the primitive classes by Series only
RECURSIVE ChoiceFree(_, _)
ChoiceFree(O, o) ==
    \/ O[o].type \in Primitives
    \/ /\ O[o].type = "Series"
       /\ \A k \in DOMAIN O[o].kids : ChoiceFree(O, O[o].kids[k])

ChoiceStep(c, takesB) ==
    LET p == objs[c]
        d == Uniform(gens[p.rng])
        chosen == IF takesB[d, p.chance] THEN p.kids[2] ELSE p.kids[1]
        other == IF takesB[d, p.chance] THEN p.kids[1] ELSE p.kids[2]
    IN /\ ncalls'[chosen] = ncalls[chosen] + 1
       /\ ncalls'[other] = ncalls[other]
       /\ gens'[p.rng].seed = gens[p.rng].seed
       /\ gens'[p.rng].pos >= gens[p.rng].pos + 1
       /\ (p.rng \notin TreeGens(objs, chosen)) => gens'[p.rng] = Advance(gens[p.rng], 1)

Draws == 0..(Grain - 1)
Chances == 0..Grain

\* C18 as stated: choice_b exactly when the draw is below chance
Cex_C18_ChoiceBelowChance ==
    [][ \A c \in 1..Len(objs) :
          (CallStep(c) /\ objs[c].type = "RandomChoice") =>
              ChoiceStep(c, [d \in Draws, ch \in Chances |-> d < ch]) ]_vars

\* C18: a call of RandomChoice draws one value d from its own generator and
\* calls choice_b when d <= chance and choice_a when d > chance; the other
\* child is not called.
Thm_C18_ChoiceByDraw ==
    [][ \A c \in 1..Len(objs) :
          (CallStep(c) /\ objs[c].type = "RandomChoice") =>
              ChoiceStep(c, [d \in Draws, ch \in Chances |-> d <= ch]) ]_vars

\* a RandomChoice was called once, its draw was equal to chance, and it
\* called choice_b
Wit_C18_ChoiceByDraw ==
    /\ Called
    /\ objs[lastOp.o].type = "RandomChoice"
    /\ gens[objs[lastOp.o].rng].pos = 1
    /\ Uniform(SeedState(gens[objs[lastOp.o].rng].seed)) = objs[lastOp.o].chance
    /\ ncalls[objs[lastOp.o].kids[2]] = 1
    /\ ncalls[objs[lastOp.o].kids[1]] = 0

\* C19: Rattle on a one-atom structure raises ValueError when
\* create_supercells is false and returns the rattled 8-atom supercell when it
\* is true; a structure of more than one atom keeps its atoms.
Thm_C19_SupercellOrError ==
    (Called /\ objs[lastOp.o].type = "Rattle") =>
        LET p == objs[lastOp.o]
            n == Len(lastOp.x.symbols)
        IN /\ (n = 1 /\ ~p.create_supercells) => lastOp.exc = "ValueError"
           /\ (n = 1 /\ p.create_supercells) =>
                 /\ lastOp.exc = "none"
                 /\ Len(lastOp.s.symbols) = 8
                 /\ lastOp.s.geom[Len(lastOp.s.geom)].op = "rattle"
           /\ n > 1 =>
                 /\ lastOp.exc = "none"
                 /\ lastOp.s.symbols = lastOp.x.symbols

Wit_C19_SupercellOrError ==
    /\ Called /\ objs[lastOp.o].type = "Rattle"
    /\ objs[lastOp.o].create_supercells
    /\ Len(lastOp.x.symbols) = 1
    /\ Len(lastOp.s.symbols) = 8
    /\ lastOp.exc = "none"

\* the elements of a structure
Present(x) == {x.symbols[i] : i \in DOMAIN x.symbols}

\* C20 as stated: failure exactly when an element of the structure is missing
\* from the reference or mapped to a non-positive length
Cex_C20_ReferenceOfPresent ==
    (Called /\ objs[lastOp.o].type = "ElementScaledRattle" /\ Len(lastOp.x.symbols) > 1) =>
        LET ref == objs[lastOp.o].reference
        IN (lastOp.exc = "ValueError") <=>
              \E e \in Present(lastOp.x) :
                  e \notin RefKeys(ref) \/ RefValue(ref, e) <= 0

\* C20: ElementScaledRattle on a structure of more than one atom raises
\* ValueError exactly when an element of the structure is missing from the
\* reference or ANY length in the reference is non-positive, whether or not
\* its element occurs in the structure; otherwise it returns.
Thm_C20_ReferenceValidated ==
    (Called /\ objs[lastOp.o].type = "ElementScaledRattle" /\ Len(lastOp.x.symbols) > 1) =>
        LET ref == objs[lastOp.o].reference
            bad == \/ \E e \in Present(lastOp.x) : e \notin RefKeys(ref)
                   \/ \E r \in ref : r[2] <= 0
        IN /\ bad => lastOp.exc = "ValueError"
           /\ ~bad => lastOp.exc = "none"

\* the reference maps every element of the structure to a positive length,
\* and an element the structure does not contain to zero: ValueError
Wit_C20_ReferenceValidated ==
    /\ Called /\ objs[lastOp.o].type = "ElementScaledRattle"
    /\ Len(lastOp.x.symbols) > 1
    /\ \A e \in Present(lastOp.x) :
          e \in RefKeys(objs[lastOp.o].reference) /\ RefValue(objs[lastOp.o].reference, e) > 0
    /\ lastOp.exc = "ValueError"

-----------------------------------------------------------------------------
(* crystals.py: Formulas.  A stoichiometry (dict from element to count) is  *)
(* a set of <<element, count>> pairs with one pair per element; a Formulas  *)
(* object is the tuple `atoms` of its stoichiometries.                      *)

MaxCount == 3

Keys(d) == {p[1] : p \in d}

\* sum(f.values())
RECURSIVE SumValues(_)
SumValues(d) ==
    IF d = {} THEN 0
    ELSE LET p == CHOOSE q \in d : TRUE IN p[2] + SumValues(d \ {p})

\* me | you on dicts: the keys of both, the right operand's value on a clash
DictOr(me, you) == {p \in me : p[1] \notin Keys(you)} \cup you

\* the builtin range(stop), range(start, stop), range(start, stop, step > 0)
PyRange(args) ==
    LET start == IF Len(args) = 1 THEN 0 ELSE args[1]
        stop == IF Len(args) = 1 THEN args[1] ELSE args[2]
        step == IF Len(args) = 3 THEN args[3] ELSE 1
        n == IF stop > start THEN (stop - start + step - 1) \div step ELSE 0
    IN [k \in 1..n |-> start + (k - 1) * step]

\* zip(a, b) and itertools.product(a, b) as tuples of pairs
PyZip(a, b) ==
    [k \in 1..(IF Len(a) < Len(b) THEN Len(a) ELSE Len(b)) |-> <<a[k], b[k]>>]
PyProduct(a, b) ==
    [k \in 1..(Len(a) * Len(b)) |->
        <<a[((k - 1) \div Len(b)) + 1], b[((k - 1) % Len(b)) + 1]>>]

\* the outcome of a method: the returned value, or the exception raised
Returns(v) == [exc |-> "none", msg |-> "", val |-> <<v>>]
Raises(exc, msg) == [exc |-> exc, msg |-> msg, val |-> <<>>]

\* Formulas.elements
Formulas_elements(F) == UNION {Keys(F[i]) : i \in DOMAIN F}

\* self.elements.isdisjoint(other.elements)
isdisjoint_first(a, b) ==
    (a = <<>> \/ b = <<>>) \/ Keys(a[1]) \cap Keys(b[1]) = {}
isdisjoint(a, b) == Formulas_elements(a) \cap Formulas_elements(b) = {}

\* Formulas.__add__
Formulas_add(a, b) == Returns(a \o b)

\* Formulas.__or__
Formulas_or_strict(a, b) ==
    IF ~isdisjoint(a, b)
    THEN Raises("AssertionError", "Can only or stoichiometries of different elements!")
    ELSE IF Len(a) # Len(b) THEN Raises("ValueError", "")
    ELSE Returns([k \in 1..Len(a) |-> DictOr(a[k], b[k])])
Formulas_or(a, b) ==
    IF ~isdisjoint(a, b)
    THEN Raises("AssertionError", "Can only or stoichiometries of different elements!")
    ELSE LET z == PyZip(a, b)
         IN Returns([k \in 1..Len(z) |-> DictOr(z[k][1], z[k][2])])

\* Formulas.__mul__
Formulas_mul_zip(a, b) ==
    IF ~isdisjoint(a, b)
    THEN Raises("AssertionError", "Can only multiply stoichiometries of different elements!")
    ELSE LET z == PyZip(a, b)
         IN Returns([k \in 1..Len(z) |-> DictOr(z[k][1], z[k][2])])
Formulas_mul(a, b) ==
    IF ~isdisjoint(a, b)
    THEN Raises("AssertionError", "Can only multiply stoichiometries of different elements!")
    ELSE LET z == PyProduct(a, b)
         IN Returns([k \in 1..Len(z) |-> DictOr(z[k][1], z[k][2])])

\* Formulas.range; the `elements` argument is a str or an iterable of str
StrArg(e) == [k |-> "str", v |-> <<e>>]
SeqArg(es) == [k |-> "seq", v |-> es]
RECURSIVE MulAll(_, _)
MulAll(total, fs) ==
    IF fs = <<>> THEN total ELSE MulAll(Formulas_mul(total, Head(fs)).val[1], Tail(fs))
Formulas_range(elements, args) ==
    IF elements.k = "str"
    THEN LET r == PyRange(args) IN [k \in 1..Len(r) |-> {<<elements.v[1], r[k]>>}]
    ELSE LET r == PyRange(args)
             fs == [j \in 1..Len(elements.v) |->
                       [k \in 1..Len(r) |-> {<<elements.v[j], r[k]>>}]]
         IN MulAll(Head(fs), Tail(fs))

\* Formulas.trim; max_atoms = None is NoMax
NoMax == -1
RECURSIVE Keep(_, _, _)
Keep(F, lo, hi) ==
    IF F = <<>> THEN <<>>
    ELSE LET t == SumValues(Head(F))
             ok == IF hi # NoMax THEN lo <= t /\ t <= hi ELSE lo <= t
         IN (IF ok THEN <<Head(F)>> ELSE <<>>) \o Keep(Tail(F), lo, hi)
Formulas_trim_exclusive(F, min_atoms, max_atoms) ==
    Returns(Keep(F, min_atoms, IF max_atoms > 0 THEN max_atoms - 1 ELSE max_atoms))
Formulas_trim(F, min_atoms, max_atoms) == Returns(Keep(F, min_atoms, max_atoms))

-----------------------------------------------------------------------------
(* Applications of the Formulas methods to operands a caller can build      *)

\* Formulas objects built as the docstring builds them
Operands ==
    { Formulas_range(StrArg("Cu"), <<3>>),
      Formulas_range(StrArg("Ag"), <<3>>),
      Formulas_range(StrArg("Cu"), <<1, 3>>),
      Formulas_range(StrArg("Ag"), <<1, 3>>),
      Formulas_range(StrArg("Ag"), <<1, MaxCount + 1>>),
      Formulas_range(StrArg("Cu"), <<1, 3>>) \o Formulas_range(StrArg("Au"), <<1, 3>>),
      Formulas_range(SeqArg(<<"Ag", "Au">>), <<1, 2>>) \o Formulas_range(StrArg("Ag"), <<2, 3>>),
      <<>> }

ElementArgs == {StrArg("Cu"), StrArg("Ag"), SeqArg(<<"Cu", "Ag">>)}
RangeArgs ==
    {<<n>> : n \in 0..MaxCount}
    \cup {<<a, b>> : a \in 0..2, b \in 0..MaxCount}
    \cup {<<1, MaxCount + 1, 2>>}

\* the arguments of one application
RangeInputs ==
    { [f |-> "input", kind |-> "range", a |-> e, b |-> r] :
          e \in ElementArgs, r \in RangeArgs }
PairInputs ==
    { [f |-> "input", kind |-> "pair", a |-> x, b |-> y] :
          x \in Operands, y \in Operands }
TrimInputs ==
    { [f |-> "input", kind |-> "trim", a |-> x, b |-> <<lo, hi>>] :
          x \in Operands, lo \in 0..2, hi \in {NoMax} \cup 0..MaxCount }

InitFn ==
    /\ \/ lastFn \in RangeInputs
       \/ lastFn \in PairInputs
       \/ lastFn \in TrimInputs
    /\ SamplerIdle
    /\ ObjIdle
    /\ DriverIdle
    /\ IdIdle

Applied(f, res) ==
    /\ lastFn' = [f |-> f, kind |-> lastFn.kind, a |-> lastFn.a, b |-> lastFn.b,
                  res |-> res]
    /\ UNCHANGED <<sargs, sst, hvars, ovars, dvars, ivars>>

RangeCall ==
    /\ lastFn.f = "input" /\ lastFn.kind = "range"
    /\ Applied("range", Returns(Formulas_range(lastFn.a, lastFn.b)))

AddCall ==
    /\ lastFn.f = "input" /\ lastFn.kind = "pair"
    /\ Applied("add", Formulas_add(lastFn.a, lastFn.b))

OrCall ==
    /\ lastFn.f = "input" /\ lastFn.kind = "pair"
    /\ Applied("or", Formulas_or(lastFn.a, lastFn.b))

MulCall ==
    /\ lastFn.f = "input" /\ lastFn.kind = "pair"
    /\ Applied("mul", Formulas_mul(lastFn.a, lastFn.b))

TrimCall ==
    /\ lastFn.f = "input" /\ lastFn.kind = "trim"
    /\ Applied("trim", Formulas_trim(lastFn.a, lastFn.b[1], lastFn.b[2]))

NextFn == RangeCall \/ AddCall \/ OrCall \/ MulCall \/ TrimCall

SpecFn == InitFn /\ [][NextFn]_vars

-----------------------------------------------------------------------------
(* Properties of the Formulas methods *)

Cu(n) == {<<"Cu", n>>}
CuAg(n, m) == {<<"Cu", n>>, <<"Ag", m>>}

\* the last step applied method f and it returned / its result
Did(f) == lastFn.f = f
Gave(f) == lastFn.f = f /\ lastFn.res.exc = "none"
Res == lastFn.res.val[1]

\* the element symbols occurring anywhere in a formula sequence
ElementsOf(F) == {p[1] : p \in UNION {F[i] : i \in DOMAIN F}}
Disjoint(a, b) == ElementsOf(a) \cap ElementsOf(b) = {}

\* C21: Formulas.range(e, n) is ({e:1}, ..., {e:n-1}); the inner product of
\* range('Cu', 3) and range('Ag', 3) is ({Cu:1,Ag:1}, {Cu:2,Ag:2}) and their
\* outer product has length 4.
Cex_C21_RangeSkipsZero ==
    /\ (Gave("range") /\ lastFn.a.k = "str" /\ Len(lastFn.b) = 1) =>
          Res = [k \in 1..(lastFn.b[1] - 1) |-> {<<lastFn.a.v[1], k>>}]
    /\ (lastFn.f \in {"or", "mul"}
          /\ lastFn.a = Formulas_range(StrArg("Cu"), <<3>>)
          /\ lastFn.b = Formulas_range(StrArg("Ag"), <<3>>)) =>
          /\ Did("or") => Res = <<CuAg(1, 1), CuAg(2, 2)>>
          /\ Did("mul") => Len(Res) = 4

\* C22: for a and b over disjoint element sets, a | b returns, has length
\* min(len(a), len(b)), and its i-th entry is the union of a[i] and b[i],
\* whether or not the lengths agree.
Thm_C22_InnerProduct ==
    (Did("or") /\ Disjoint(lastFn.a, lastFn.b)) =>
        /\ lastFn.res.exc = "none"
        /\ Len(Res) = Min(Len(lastFn.a), Len(lastFn.b))
        /\ \A i \in 1..Len(Res) : Res[i] = lastFn.a[i] \cup lastFn.b[i]

\* operands of lengths 2 and 3 gave the two unions
Wit_C22_InnerProduct ==
    /\ Gave("or")
    /\ Len(lastFn.a) = 2 /\ Len(lastFn.b) = 3
    /\ Res = <<CuAg(1, 1), CuAg(2, 2)>>

\* the number of index pairs (i, j) whose union is v, and of entries equal to v
Pairs(a, b, v) ==
    Cardinality({ij \in (DOMAIN a) \X (DOMAIN b) : a[ij[1]] \cup b[ij[2]] = v})
Entries(F, v) == Cardinality({k \in DOMAIN F : F[k] = v})

\* C23 as stated: every entry also carries all elements of both operands
Cex_C23_OuterCarriesAll ==
    (Did("mul") /\ Disjoint(lastFn.a, lastFn.b)) =>
        /\ lastFn.res.exc = "none"
        /\ Len(Res) = Len(lastFn.a) * Len(lastFn.b)
        /\ \A k \in 1..Len(Res) :
              /\ Entries(Res, Res[k]) = Pairs(lastFn.a, lastFn.b, Res[k])
              /\ Keys(Res[k]) = ElementsOf(lastFn.a) \cup ElementsOf(lastFn.b)

\* C23: for a and b over disjoint element sets, a * b returns, has length
\* len(a) * len(b), and holds the union of a[i] and b[j] once for every index
\* pair (i, j); an entry carries the elements of a[i] and of b[j], which are
\* all elements of both operands only when every entry of a has the same
\* elements and every entry of b has.
Thm_C23_OuterProduct ==
    (Did("mul") /\ Disjoint(lastFn.a, lastFn.b)) =>
        /\ lastFn.res.exc = "none"
        /\ Len(Res) = Len(lastFn.a) * Len(lastFn.b)
        /\ \A i \in DOMAIN lastFn.a, j \in DOMAIN lastFn.b :
              Entries(Res, lastFn.a[i] \cup lastFn.b[j])
                 = Pairs(lastFn.a, lastFn.b, lastFn.a[i] \cup lastFn.b[j])
        /\ \A k \in 1..Len(Res) :
              \E i \in DOMAIN lastFn.a, j \in DOMAIN lastFn.b :
                  /\ Res[k] = lastFn.a[i] \cup lastFn.b[j]
                  /\ Keys(Res[k]) = Keys(lastFn.a[i]) \cup Keys(lastFn.b[j])

\* Cu and Au formulas in one sequence, multiplied with Ag formulas: eight
\* entries, none with all three elements
Wit_C23_OuterProduct ==
    /\ Gave("mul")
    /\ Len(lastFn.a) = 4 /\ Len(lastFn.b) = 2
    /\ ElementsOf(lastFn.a) = {"Cu", "Au"} /\ ElementsOf(lastFn.b) = {"Ag"}
    /\ Len(Res) = 8
    /\ \A k \in 1..8 : Cardinality(Keys(Res[k])) = 2

\* C24: entry number j*len(a)+i (counting from zero) of a * b is the union
\* of a[i] and b[j]: the left operand's index varies fastest.
Cex_C24_OuterLeftFastest ==
    (Gave("mul") /\ Disjoint(lastFn.a, lastFn.b)) =>
        \A i \in DOMAIN lastFn.a, j \in DOMAIN lastFn.b :
            Res[(j - 1) * Len(lastFn.a) + i] = lastFn.a[i] \cup lastFn.b[j]

\* C25: a | b and a * b for operands sharing an element symbol anywhere raise
\* AssertionError with the message naming the operation and return nothing;
\* for operands sharing none they return.
Thm_C25_DisjointnessChecked ==
    (lastFn.f \in {"or", "mul"}) =>
        IF Disjoint(lastFn.a, lastFn.b)
        THEN lastFn.res.exc = "none" /\ Len(lastFn.res.val) = 1
        ELSE /\ lastFn.res.exc = "AssertionError"
             /\ lastFn.res.val = <<>>
             /\ Did("or") =>
                   lastFn.res.msg = "Can only or stoichiometries of different elements!"
             /\ Did("mul") =>
                   lastFn.res.msg = "Can only multiply stoichiometries of different elements!"

\* the operands share Au, which occurs in neither operand's first entry
Wit_C25_DisjointnessChecked ==
    /\ Did("mul")
    /\ lastFn.a # <<>> /\ lastFn.b # <<>>
    /\ "Au" \in ElementsOf(lastFn.a) \cap ElementsOf(lastFn.b)
    /\ "Au" \notin Keys(lastFn.a[1])
    /\ Keys(lastFn.a[1]) \cap Keys(lastFn.b[1]) = {}
    /\ lastFn.res.exc = "AssertionError"

\* total number of atoms of a formula
CountOf(f, e) == IF \E p \in f : p[1] = e THEN (CHOOSE p \in f : p[1] = e)[2] ELSE 0
Total(f) == CountOf(f, "Cu") + CountOf(f, "Ag") + CountOf(f, "Au")
Within(f) ==
    /\ lastFn.b[1] <= Total(f)
    /\ lastFn.b[2] # NoMax => Total(f) <= lastFn.b[2]

\* C26: trim(min_atoms, max_atoms) returns the formulas with min_atoms <=
\* total <= max_atoms (no upper bound without max_atoms) in their original
\* order, trimming the result again gives the same result, and the object
\* trimmed is the same after the call as before.
Thm_C26_Trim ==
    /\ [](Gave("trim") =>
            /\ Res = SelectSeq(lastFn.a, Within)
            /\ Formulas_trim(Res, lastFn.b[1], lastFn.b[2]) = lastFn.res)
    /\ [][lastFn'.f = "trim" =>
            /\ lastFn'.res.exc = "none"
            /\ lastFn'.a = lastFn.a]_vars

\* (Cu0, Cu1, Cu2) trimmed to exactly one atom
Wit_C26_Trim ==
    /\ Gave("trim")
    /\ lastFn.a = <<Cu(0), Cu(1), Cu(2)>>
    /\ lastFn.b = <<1, 1>>
    /\ Res = <<Cu(1)>>

-----------------------------------------------------------------------------
(* perturbations.py: the strain tensor of stretch.  Strains are integers on *)
(* a grid; Unit is the 1.0 of the diagonal.                                 *)

MaxStrain == 2
Unit == 10

\* Generator.uniform(low, high): a value of [low, high).  For high < low
\* numpy documents the result as undefined: the call raises ValueError, or
\* returns low + (high - low) * u with u in [0, 1)
uniform(low, high) ==
    IF low < high THEN low..(high - 1)
    ELSE IF low = high THEN {low}
    ELSE (high + 1)..low
uniform_undefined(low, high) == high < low

\* get_strains(max_strain, 3): three signs times three magnitudes
get_strains(minimum_strain, max_strain) ==
    LET v == {sg * mg : sg \in {-1, 1}, mg \in uniform(minimum_strain, max_strain)}
    IN v \X v \X v

\* the tensor built from the off-diagonal strains sh and the diagonal ones hy:
\* strain[triu_indices(3, k=1)] = sh; strain += strain.T; diagonal = 1 + hy
StrainTensor(sh, hy) ==
    LET upper == [ij \in {<<1, 2>>, <<1, 3>>, <<2, 3>>} |->
                     IF ij = <<1, 2>> THEN sh[1] ELSE IF ij = <<1, 3>> THEN sh[2] ELSE sh[3]]
        zero == [i \in 1..3 |-> [j \in 1..3 |-> 0]]
        tri == [i \in 1..3 |-> [j \in 1..3 |-> IF i < j THEN upper[<<i, j>>] ELSE zero[i][j]]]
        sym == [i \in 1..3 |-> [j \in 1..3 |-> tri[i][j] + tri[j][i]]]
    IN [i \in 1..3 |-> [j \in 1..3 |-> IF i = j THEN Unit + hy[i] ELSE sym[i][j]]]

StrainInputs ==
    { [f |-> "input", kind |-> "stretch", a |-> <<hydro, shear>>, b |-> minimum_strain] :
          hydro \in 0..MaxStrain, shear \in 0..MaxStrain, minimum_strain \in 0..MaxStrain }

InitStrain ==
    /\ lastFn \in StrainInputs
    /\ SamplerIdle
    /\ ObjIdle
    /\ DriverIdle
    /\ IdIdle

\* stretch builds the tensor
StretchStrain ==
    /\ lastFn.f = "input" /\ lastFn.kind = "stretch"
    /\ \E sh \in get_strains(lastFn.b, lastFn.a[2]), hy \in get_strains(lastFn.b, lastFn.a[1]) :
          Applied("stretch", Returns(StrainTensor(sh, hy)))

\* stretch ends in uniform's ValueError
StretchRaises ==
    /\ lastFn.f = "input" /\ lastFn.kind = "stretch"
    /\ uniform_undefined(lastFn.b, lastFn.a[2]) \/ uniform_undefined(lastFn.b, lastFn.a[1])
    /\ Applied("stretch", Raises("ValueError", "high - low < 0"))

NextStrain == StretchStrain \/ StretchRaises

SpecStrain == InitStrain /\ [][NextStrain]_vars

Abs(x) == IF x < 0 THEN -x ELSE x

\* C27: for every hydro, shear and minimum_strain, stretch builds a symmetric
\* tensor whose off-diagonal components s have |s| >= minimum_strain and whose
\* diagonal components are 1 + s with |s| >= minimum_strain.
Cex_C27_MinimumStrain ==
    Did("stretch") =>
        /\ lastFn.res.exc = "none"
        /\ \A i \in 1..3, j \in 1..3 :
              /\ Res[i][j] = Res[j][i]
              /\ i # j => Abs(Res[i][j]) >= lastFn.b
              /\ i = j => Abs(Res[i][i] - Unit) >= lastFn.b

-----------------------------------------------------------------------------
(* apply_perturbations and its input structures *)

\* yield k was made from the input structure alone: its tag is the input's
\* tag followed by the tag of the one perturbation of its pair, and its
\* geometry history is the input's followed by that perturbation's steps (at
\* most a supercell and a displacement or strain for each of its members)
FromInput(k) ==
    LET x == structures[out[k].pair[1]]
        o == perturbations[out[k].pair[2]]
        p == objs[o]
        y == out[k].s
    IN /\ y.symbols \in {x.symbols, repeat2(x).symbols}
       /\ Len(y.geom) <= Len(x.geom) + 2 * Cardinality(Tree(objs, o))
       /\ SubSeq(y.geom, 1, Len(x.geom)) = x.geom
       /\ CASE p.type = "Function" -> y.perturbation = x.perturbation
            [] p.type = "RandomChoice" ->
                  \E c \in DOMAIN p.kids :
                      y.perturbation = Tagged(x.perturbation, Str(objs, p.kids[c]))
            [] OTHER -> y.perturbation = Tagged(x.perturbation, Str(objs, o))

\* C28: no step of apply_perturbations changes an input structure (atoms,
\* geometry, uuid, lineage, seed, tag), whether the attempt yields, is
\* rejected or raises, and every yielded structure was made from the input
\* structure of its pair by the perturbation of its pair alone.
Thm_C28_InputsUntouched ==
    /\ [][structures' = structures]_vars
    /\ [](\A k \in 1..Len(out) : FromInput(k))

\* a finished run that yielded for both perturbations of one input structure
\* and had an attempt rejected and an attempt that raised
Wit_C28_InputsUntouched ==
    /\ pc = "done" /\ run = 1
    /\ \E k \in 1..Len(out), l \in 1..Len(out) :
          /\ out[k].pair[1] = out[l].pair[1] /\ out[k].pair[2] < out[l].pair[2]
          /\ out[k].s.perturbation # <<>> /\ out[l].s.perturbation # <<>>
          /\ out[k].s.geom # <<>> /\ out[l].s.geom # <<>>
    /\ \E p \in AllPairs : log[p[1]][p[2]].rej > 0
    /\ \E p \in AllPairs : log[p[1]][p[2]].exc = "ValueError"

-----------------------------------------------------------------------------
(* crystals.py: sample_space_groups.  The external sampler (pyxtal) is a    *)
(* black box that returns some number of structures for a formula.  The     *)
(* generator is consumed to its end.                                        *)

MaxPx == 2
MaxBudget == 3

\* max_structures = None
Unlimited == -1

\* max_group = [58, 75, 80, 230][dim]
max_group(dim) == <<58, 75, 80, 230>>[dim + 1]

\* lines 148-172: the checks made before the first formula is looked at;
\* spacegroups is <<>> for None, else <<min(spacegroups), max(spacegroups)>>
ArgumentError(a) ==
    IF ~(0 <= a.dim /\ a.dim <= 3) THEN "ValueError"
    ELSE IF a.spacegroups # <<>>
            /\ (a.spacegroups[1] <= 0 \/ max_group(a.dim) < a.spacegroups[2])
         THEN "ValueError"
    ELSE IF a.tolerance \notin {"metallic", "atomic", "molecular", "vdW", "dict", "DistanceFilter"}
         THEN "ValueError"
    ELSE "none"

\* stoich = {e: n for e, n in stoich.items() if n > 0}
Positive_all(stoich) == stoich
Positive(stoich) == {p \in stoich : p[2] > 0}

\* islice(map(pop, px), max_structures): how many of the n structures pass
islice(n, stop) == IF stop = Unlimited THEN n ELSE Min(n, stop)

\* max_structures -= len(px)
Remaining_unchanged(max_structures, n) == max_structures
Remaining(max_structures, n) == max_structures - n

SampledLists ==
    { Formulas_or(Formulas_range(StrArg("Cu"), <<3>>), Formulas_range(StrArg("Ag"), <<3>>)).val[1],
      Formulas_range(StrArg("Cu"), <<MaxCount + 1>>),
      Formulas_mul(Formulas_range(StrArg("Cu"), <<2>>), Formulas_range(StrArg("Ag"), <<1, 3>>)).val[1],
      <<Cu(2), CuAg(0, 0), CuAg(1, 0)>> }

SamplerArgs ==
    { [formulas |-> F, min_atoms |-> lo, max_atoms |-> hi, max_structures |-> ms,
       dim |-> 3, spacegroups |-> <<>>, tolerance |-> "metallic"] :
          F \in SampledLists, lo \in 1..2, hi \in 1..3, ms \in {Unlimited} \cup 0..MaxBudget }
    \cup { [formulas |-> F, min_atoms |-> 1, max_atoms |-> 10, max_structures |-> Unlimited,
            dim |-> d, spacegroups |-> g, tolerance |-> t] :
              F \in SampledLists, d \in {2, 4}, g \in {<<>>, <<0, 5>>, <<1, 230>>},
              t \in {"metallic", "bogus"} }

InitSample ==
    /\ sargs \in SamplerArgs
    /\ sst = [pc |-> "start", idx |-> 1, budget |-> sargs.max_structures, yielded |-> 0,
              calls |-> <<>>, skipped |-> {}, exc |-> "none"]
    /\ lastFn = NoCall
    /\ ObjIdle
    /\ DriverIdle
    /\ IdIdle

SampleFrame == UNCHANGED <<sargs, lastFn, hvars, ovars, dvars, ivars>>

\* for stoich in formulas: ... the loop ends when the formulas are used up
LoopAt(i) == IF i > Len(sargs.formulas) THEN "exhausted" ELSE "loop"

\* the checks before the loop
CheckArguments ==
    /\ sst.pc = "start"
    /\ sst' = IF ArgumentError(sargs) # "none"
              THEN [sst EXCEPT !.pc = "raised", !.exc = ArgumentError(sargs)]
              ELSE [sst EXCEPT !.pc = LoopAt(1)]
    /\ SampleFrame

\* the formula is empty after removing its zero counts, or its number of
\* atoms is out of bounds: continue
SkipFormula ==
    /\ sst.pc = "loop"
    /\ LET stoich == Positive(sargs.formulas[sst.idx])
       IN /\ \/ stoich = {}
             \/ ~(sargs.min_atoms <= SumValues(stoich) /\ SumValues(stoich) <= sargs.max_atoms)
          /\ sst' = [sst EXCEPT !.idx = @ + 1, !.pc = LoopAt(sst.idx + 1),
                                !.skipped = @ \cup {sst.idx}]
    /\ SampleFrame

\* the sampler is called for the formula and returns n structures; as many
\* of them as the budget allows are yielded; the loop goes on or breaks
SampleFormula ==
    /\ sst.pc = "loop"
    /\ LET stoich == Positive(sargs.formulas[sst.idx])
       IN /\ stoich # {}
          /\ sargs.min_atoms <= SumValues(stoich) /\ SumValues(stoich) <= sargs.max_atoms
          /\ \E n \in 0..MaxPx :
                LET gave == islice(n, sst.budget)
                    left == IF sst.budget = Unlimited THEN Unlimited
                            ELSE Remaining(sst.budget, n)
                    call == [idx |-> sst.idx, stoich |-> stoich, n |-> n, gave |-> gave,
                             budget |-> sst.budget]
                IN sst' = [sst EXCEPT
                              !.calls = Append(@, call),
                              !.yielded = @ + gave,
                              !.budget = left,
                              !.idx = @ + 1,
                              !.pc = IF sst.budget # Unlimited /\ left <= 0 THEN "broke"
                                     ELSE LoopAt(sst.idx + 1)]
    /\ SampleFrame

NextSample == CheckArguments \/ SkipFormula \/ SampleFormula

SpecSample == InitSample /\ [][NextSample]_vars

-----------------------------------------------------------------------------
(* Properties of sample_space_groups *)

RECURSIVE Produced(_)
Produced(calls) == IF calls = <<>> THEN 0 ELSE Head(calls).n + Produced(Tail(calls))

Ended == sst.pc \in {"exhausted", "broke"}

\* C29: with max_structures given, at most max_structures structures are
\* yielded in total; the remaining budget shrinks from one sampler call to the
\* next by what the earlier call produced; every sampler call after the first
\* is made with a positive remaining budget; and when the iteration has ended,
\* min(max_structures, number of structures the sampler produced) have been
\* yielded.
Thm_C29_Budget ==
    (sst.pc # "idle" /\ sargs.max_structures # Unlimited) =>
        /\ sst.yielded <= sargs.max_structures
        /\ \A k \in 2..Len(sst.calls) :
              /\ sst.calls[k].budget = sst.calls[k - 1].budget - sst.calls[k - 1].n
              /\ sst.calls[k].budget > 0
        /\ Ended => sst.yielded = Min(sargs.max_structures, Produced(sst.calls))
        /\ (sst.calls # <<>> /\ Produced(sst.calls) >= sargs.max_structures) =>
              sst.pc = "broke"

\* the budget ran out at the second sampler call, which produced more than
\* was left, with a formula still to come
Wit_C29_Budget ==
    /\ sst.pc # "idle" /\ sst.pc = "broke"
    /\ sargs.max_structures = MaxBudget
    /\ Len(sst.calls) = 2
    /\ sst.calls[2].gave < sst.calls[2].n
    /\ sst.yielded = MaxBudget
    /\ sst.idx <= Len(sargs.formulas)
    /\ \E i \in (sst.idx)..Len(sargs.formulas) : Positive(sargs.formulas[i]) # {}

\* the formula with its zero counts removed, and whether it is sampled
Nonzero(f) == {p \in f : p[2] # 0}
Eligible(f) ==
    /\ Nonzero(f) # {}
    /\ sargs.min_atoms <= Total(f) /\ Total(f) <= sargs.max_atoms

\* C30: every sampler call is made for a formula of the sequence with its
\* zero counts removed, has only positive counts and a total within
\* [min_atoms, max_atoms]; the formulas that are empty after the removal or
\* out of bounds are skipped without a call, and when the loop runs to the
\* end of the sequence every other formula has been sampled, in order.
Thm_C30_SamplerArguments ==
    sst.pc # "idle" =>
        /\ \A k \in 1..Len(sst.calls) :
              LET c == sst.calls[k]
              IN /\ c.stoich = Nonzero(sargs.formulas[c.idx])
                 /\ \A p \in c.stoich : p[2] > 0
                 /\ c.stoich # {}
                 /\ sargs.min_atoms <= Total(c.stoich) /\ Total(c.stoich) <= sargs.max_atoms
                 /\ k > 1 => sst.calls[k - 1].idx < c.idx
        /\ \A i \in sst.skipped : ~Eligible(sargs.formulas[i])
        /\ sst.pc = "exhausted" =>
              /\ {sst.calls[k].idx : k \in 1..Len(sst.calls)}
                    = {i \in 1..Len(sargs.formulas) : Eligible(sargs.formulas[i])}
              /\ sst.skipped
                    = {i \in 1..Len(sargs.formulas) : ~Eligible(sargs.formulas[i])}

\* an all-zero formula was skipped, then a formula was sampled without its
\* zero-count element
Wit_C30_SamplerArguments ==
    /\ sst.pc # "idle" /\ sst.pc = "exhausted"
    /\ \E i \in sst.skipped : Nonzero(sargs.formulas[i]) = {} /\ sargs.formulas[i] # {}
    /\ \E k \in 1..Len(sst.calls) :
          /\ sst.calls[k].stoich # sargs.formulas[sst.calls[k].idx]
          /\ \E i \in sst.skipped : i < sst.calls[k].idx

====
